---- MODULE Spec2Model ----
(***************************************************************************)
(* Model of the constraint-propagation CNF search of circuitsatisfier:     *)
(* satisfier.py (Gate trees, gate_to_cnf_clauses, ConstraintSet,           *)
(* propagate_clause, satisfy_cnf, generate_and_solve) and                  *)
(* pigeonhole_generator.py (generate_pigeonhole).                          *)
(*                                                                         *)
(* A clause is the pair <<pos_lits, neg_lits>> of two sequences of         *)
(* variable ids.  A ConstraintSet is its var_states dict: a function from  *)
(* the set of keys present to a VarState.  One behaviour is one call of    *)
(* one entry point on one input; satisfy_cnf advances one clause of its    *)
(* for-loop per step.  The entry "set_state" is a client of one             *)
(* ConstraintSet object: cset is the object, last_call the latest           *)
(* set_state call on it (arguments, dict before the call, value returned). *)
(***************************************************************************)
EXTENDS Integers, Sequences, FiniteSets

VARIABLES entry, circuit, pigeons, holes, all_variables, clauses, pc, i,
          possible_constraints, started, ret, result,
          cset, last_call, n_calls

vars == <<entry, circuit, pigeons, holes, all_variables, clauses, pc, i,
          possible_constraints, started, ret, result,
          cset, last_call, n_calls>>

---------------------------------------------------------------------------
(* Bounds of the checked instances *)

NumVars == 2          \* variable ids 1..NumVars in directly supplied formulas
MaxLits == 2          \* literals per clause (positive plus negative)
MaxClauses == 3       \* clauses per directly supplied formula
MaxGateLits == 2      \* children of a second-level gate
MaxGateClauses == 2   \* children of the top-level gate
MaxPigeons == 3
MaxHoles == 3
MaxCalls == 3         \* set_state calls on one ConstraintSet object

Vars == 1..NumVars

---------------------------------------------------------------------------
(* VarState and ConstraintSet *)

UNKNOWN == "UNKNOWN"
MUST_TRUE == "MUST_TRUE"
MUST_FALSE == "MUST_FALSE"
CONFLICT == "CONFLICT"

VarState == {UNKNOWN, MUST_TRUE, MUST_FALSE, CONFLICT}

\* ConstraintSet(): var_states = {}
ConstraintSet == [v \in {} |-> UNKNOWN]

\* ConstraintSet.copy: an independent dict with the same items
copy(cs) == [v \in DOMAIN cs |-> cs[v]]

get_state(cs, var) == IF var \in DOMAIN cs THEN cs[var] ELSE UNKNOWN

Store(cs, var, state) ==
    [v \in (DOMAIN cs) \cup {var} |-> IF v = var THEN state ELSE cs[v]]

set_state_noMark(cs, var, state) ==
    LET current == get_state(cs, var) IN
    IF current = state \/ current = UNKNOWN
    THEN [ok |-> TRUE, cs |-> Store(cs, var, state)]
    ELSE [ok |-> FALSE, cs |-> cs]

set_state_strict(cs, var, state) ==
    LET current == get_state(cs, var) IN
    IF current = state
    THEN [ok |-> TRUE, cs |-> Store(cs, var, state)]
    ELSE [ok |-> FALSE, cs |-> Store(cs, var, CONFLICT)]

\* ConstraintSet.set_state: the updated dict and the boolean returned
set_state(cs, var, state) ==
    LET current == get_state(cs, var) IN
    IF current = state \/ current = UNKNOWN
    THEN [ok |-> TRUE, cs |-> Store(cs, var, state)]
    ELSE [ok |-> FALSE, cs |-> Store(cs, var, CONFLICT)]

NoAssignment == [v \in {} |-> TRUE]

to_assignment_trueOnly(cs) ==
    IF \E v \in DOMAIN cs : cs[v] = CONFLICT
    THEN [ret |-> "None", result |-> NoAssignment]
    ELSE [ret |-> "assignment",
          result |-> [v \in {w \in DOMAIN cs : cs[w] = MUST_TRUE} |-> TRUE]]

to_assignment_falseAsTrue(cs) ==
    IF \E v \in DOMAIN cs : cs[v] = CONFLICT
    THEN [ret |-> "None", result |-> NoAssignment]
    ELSE [ret |-> "assignment", result |-> [v \in DOMAIN cs |-> TRUE]]

\* ConstraintSet.to_assignment: None on a CONFLICT, else one boolean per key
to_assignment(cs) ==
    IF \E v \in DOMAIN cs : cs[v] = CONFLICT
    THEN [ret |-> "None", result |-> NoAssignment]
    ELSE [ret |-> "assignment",
          result |-> [v \in DOMAIN cs |->
                        IF cs[v] = MUST_TRUE THEN TRUE
                        ELSE IF cs[v] = MUST_FALSE THEN FALSE
                        ELSE TRUE]]

---------------------------------------------------------------------------
(* propagate_clause *)

RECURSIVE Candidates_keepAll(_, _, _, _, _)
Candidates_keepAll(lits, k, current_state, excluded, want) ==
    IF k > Len(lits) THEN <<>>
    ELSE <<set_state(copy(current_state), lits[k], want).cs>>
         \o Candidates_keepAll(lits, k + 1, current_state, excluded, want)

RECURSIVE Candidates(_, _, _, _, _)
\* one of the two branching loops: literals lits[k..], skipping a variable
\* whose state is `excluded`, forcing the others to `want`
Candidates(lits, k, current_state, excluded, want) ==
    IF k > Len(lits) THEN <<>>
    ELSE LET var == lits[k]
             new_state == set_state(copy(current_state), var, want)
             kept == IF get_state(current_state, var) # excluded /\ new_state.ok
                     THEN <<new_state.cs>>
                     ELSE <<>>
         IN kept \o Candidates(lits, k + 1, current_state, excluded, want)

\* the already-satisfied test of the first two loops
AlreadySatisfied(clause, current_state) ==
    \/ \E k \in 1..Len(clause[1]) : get_state(current_state, clause[1][k]) = MUST_TRUE
    \/ \E k \in 1..Len(clause[2]) : get_state(current_state, clause[2][k]) = MUST_FALSE

Head1(s) == IF s = <<>> THEN <<>> ELSE <<s[1]>>

propagate_clause_first(clause, constraints) ==
    LET current_state == copy(constraints) IN
    IF AlreadySatisfied(clause, current_state)
    THEN <<current_state>>
    ELSE Head1(Candidates(clause[1], 1, current_state, MUST_FALSE, MUST_TRUE)
               \o Candidates(clause[2], 1, current_state, MUST_TRUE, MUST_FALSE))

propagate_clause_vacuous(clause, constraints) ==
    LET current_state == copy(constraints) IN
    IF AlreadySatisfied(clause, current_state) \/ clause = <<<<>>, <<>>>>
    THEN <<current_state>>
    ELSE Candidates(clause[1], 1, current_state, MUST_FALSE, MUST_TRUE)
         \o Candidates(clause[2], 1, current_state, MUST_TRUE, MUST_FALSE)

propagate_clause_branchAlways(clause, constraints) ==
    LET current_state == copy(constraints) IN
    Candidates(clause[1], 1, current_state, MUST_FALSE, MUST_TRUE)
    \o Candidates(clause[2], 1, current_state, MUST_TRUE, MUST_FALSE)

propagate_clause_negFirst(clause, constraints) ==
    LET current_state == copy(constraints) IN
    IF AlreadySatisfied(clause, current_state)
    THEN <<current_state>>
    ELSE Candidates(clause[2], 1, current_state, MUST_TRUE, MUST_FALSE)
         \o Candidates(clause[1], 1, current_state, MUST_FALSE, MUST_TRUE)

propagate_clause(clause, constraints) ==
    LET current_state == copy(constraints) IN
    IF AlreadySatisfied(clause, current_state)
    THEN <<current_state>>
    ELSE Candidates(clause[1], 1, current_state, MUST_FALSE, MUST_TRUE)
         \o Candidates(clause[2], 1, current_state, MUST_TRUE, MUST_FALSE)

RECURSIVE Extend(_, _, _)
\* the inner loop of satisfy_cnf: new_constraints.extend(...) per ancestor
Extend(clause, frontier, j) ==
    IF j > Len(frontier) THEN <<>>
    ELSE propagate_clause(clause, frontier[j]) \o Extend(clause, frontier, j + 1)

EmptyFormulaResultNone == [ret |-> "None", result |-> NoAssignment]

\* satisfy_cnf: `if not clauses: return {}`
EmptyFormulaResult == [ret |-> "assignment", result |-> NoAssignment]

FrontierExhaustedNever(frontier) == FALSE

\* satisfy_cnf: `if not possible_constraints`
FrontierExhausted(frontier) == frontier = <<>>

RECURSIVE Search(_, _, _)
\* the for-loop of satisfy_cnf from clause k on, and the final return
Search(cl, k, frontier) ==
    IF k > Len(cl)
    THEN IF frontier = <<>>
         THEN [ret |-> "IndexError", result |-> NoAssignment]
         ELSE to_assignment(frontier[1])
    ELSE LET new_constraints == Extend(cl[k], frontier, 1) IN
         IF FrontierExhausted(new_constraints)
         THEN [ret |-> "None", result |-> NoAssignment]
         ELSE Search(cl, k + 1, new_constraints)

\* satisfy_cnf as a function of its argument
satisfy_cnf(cl) ==
    IF cl = <<>> THEN EmptyFormulaResult ELSE Search(cl, 1, <<ConstraintSet>>)

---------------------------------------------------------------------------
(* Gate trees, gate_to_cnf_clauses and collect_circuit_variables *)

\* Gate(gate_type, inputs, index=index); index 0 stands for None
Gate(gate_type, inputs, index) ==
    [gate_type |-> gate_type, inputs |-> inputs, index |-> index]

NoGate == Gate("NONE", <<>>, 0)

RECURSIVE ExtractLiterals(_, _, _, _)
\* the loop over clause.inputs: the two literal lists, or the error raised
ExtractLiterals(lits, k, positive_literals, negative_literals) ==
    IF k > Len(lits)
    THEN [err |-> "none", clause |-> <<positive_literals, negative_literals>>]
    ELSE LET literal == lits[k] IN
         IF literal.gate_type = "INPUT"
         THEN ExtractLiterals(lits, k + 1,
                              Append(positive_literals, literal.index),
                              negative_literals)
         ELSE IF literal.gate_type = "NOT"
         THEN IF literal.inputs = <<>>
              THEN [err |-> "IndexError", clause |-> <<>>]
              ELSE IF literal.inputs[1].gate_type # "INPUT"
              THEN [err |-> "ValueError", clause |-> <<>>]
              ELSE ExtractLiterals(lits, k + 1, positive_literals,
                                   Append(negative_literals, literal.inputs[1].index))
         ELSE [err |-> "ValueError", clause |-> <<>>]

RECURSIVE ExtractClauses(_, _, _)
\* the loop over circuit.inputs
ExtractClauses(gates, k, acc) ==
    IF k > Len(gates) THEN [err |-> "none", clauses |-> acc]
    ELSE IF gates[k].gate_type # "OR"
    THEN [err |-> "ValueError", clauses |-> <<>>]
    ELSE LET r == ExtractLiterals(gates[k].inputs, 1, <<>>, <<>>) IN
         IF r.err # "none"
         THEN [err |-> r.err, clauses |-> <<>>]
         ELSE ExtractClauses(gates, k + 1, Append(acc, r.clause))

gate_to_cnf_clauses_anyTop(c) ==
    ExtractClauses(c.inputs, 1, <<>>)

gate_to_cnf_clauses(c) ==
    IF c.gate_type # "AND"
    THEN [err |-> "ValueError", clauses |-> <<>>]
    ELSE ExtractClauses(c.inputs, 1, <<>>)

RECURSIVE gather_vars(_)
gather_vars(gate) ==
    (IF gate.gate_type = "INPUT" THEN {gate.index} ELSE {})
    \cup UNION {gather_vars(gate.inputs[k]) : k \in 1..Len(gate.inputs)}

collect_circuit_variables(c) == gather_vars(c)

---------------------------------------------------------------------------
(* generate_pigeonhole *)

\* clause 1.p: pigeon p sits in at least one hole
PigeonClause(p, nholes) == <<[h \in 1..nholes |-> (p - 1) * nholes + h], <<>>>>

RECURSIVE PairClauses(_, _, _, _, _)
\* the loops over p1 and p2 for hole h, p2 running up to `last`
PairClauses(h, p1, p2, nholes, last) ==
    IF p1 > last THEN <<>>
    ELSE IF p2 > last THEN PairClauses(h, p1 + 1, p1 + 2, nholes, last)
    ELSE <<  <<  <<>>, <<(p1 - 1) * nholes + h, (p2 - 1) * nholes + h>>  >>  >>
         \o PairClauses(h, p1, p2 + 1, nholes, last)

RECURSIVE HoleClauses(_, _, _)
\* the loop over h
HoleClauses(h, nholes, last) ==
    IF h > nholes THEN <<>>
    ELSE PairClauses(h, 1, 2, nholes, last) \o HoleClauses(h + 1, nholes, last)

generate_pigeonhole_shortRange(npigeons, nholes) ==
    [p \in 1..npigeons |-> PigeonClause(p, nholes)]
    \o HoleClauses(1, nholes, npigeons - 1)

generate_pigeonhole(npigeons, nholes) ==
    [p \in 1..npigeons |-> PigeonClause(p, nholes)]
    \o HoleClauses(1, nholes, npigeons)

---------------------------------------------------------------------------
(* Inputs *)

SeqsUpTo(S, n) == UNION {[1..m -> S] : m \in 0..n}

\* clauses of at most MaxLits literals over Vars, variables may repeat
Clauses ==
    {c \in SeqsUpTo(Vars, MaxLits) \X SeqsUpTo(Vars, MaxLits) :
        Len(c[1]) + Len(c[2]) <= MaxLits}

Formulas == SeqsUpTo(Clauses, MaxClauses)

InputGates == {Gate("INPUT", <<>>, v) : v \in Vars}

\* children of a second-level gate: the two literal shapes of CNF, a double
\* negation, a nested OR and a NOT without operand
LiteralGates ==
    InputGates
    \cup {Gate("NOT", <<g>>, 0) : g \in InputGates}
    \cup {Gate("NOT", << Gate("NOT", << Gate("INPUT", <<>>, 1) >>, 0) >>, 0),
          Gate("OR", <<>>, 0),
          Gate("NOT", <<>>, 0)}

SecondLevelGates ==
    {Gate("OR", ls, 0) : ls \in SeqsUpTo(LiteralGates, MaxGateLits)}
    \cup {Gate("AND", << Gate("INPUT", <<>>, 1) >>, 0), Gate("INPUT", <<>>, 1)}

Circuits ==
    {Gate("AND", gs, 0) : gs \in SeqsUpTo(SecondLevelGates, MaxGateClauses)}
    \cup {Gate("OR", gs, 0) : gs \in SeqsUpTo(SecondLevelGates, 1)}

---------------------------------------------------------------------------
(* State machine *)

NoCall == [var |-> 0, state |-> UNKNOWN, before |-> ConstraintSet, ok |-> TRUE]

Init ==
    /\ entry \in {"satisfy_cnf", "pigeonhole", "generate_and_solve", "set_state"}
    /\ \/ /\ entry = "satisfy_cnf"
          /\ clauses \in Formulas
          /\ circuit = NoGate /\ pigeons = 0 /\ holes = 0
          /\ pc = "start"
       \/ /\ entry = "pigeonhole"
          /\ pigeons \in 1..MaxPigeons /\ holes \in 1..MaxHoles
          /\ clauses = <<>> /\ circuit = NoGate
          /\ pc = "generate"
       \/ /\ entry = "generate_and_solve"
          /\ circuit \in Circuits
          /\ clauses = <<>> /\ pigeons = 0 /\ holes = 0
          /\ pc = "collect"
       \/ /\ entry = "set_state"
          /\ clauses = <<>> /\ circuit = NoGate /\ pigeons = 0 /\ holes = 0
          /\ pc = "object"
    /\ all_variables = {}
    /\ i = 0
    /\ possible_constraints = <<>>
    /\ started = FALSE
    /\ ret = "pending"
    /\ result = NoAssignment
    /\ cset = ConstraintSet
    /\ last_call = NoCall
    /\ n_calls = 0

\* one call cset.set_state(var, state) on the ConstraintSet object
SetState ==
    /\ pc = "object"
    /\ n_calls < MaxCalls
    /\ \E var \in Vars, state \in VarState :
          LET r == set_state(cset, var, state) IN
          /\ cset' = r.cs
          /\ last_call' = [var |-> var, state |-> state, before |-> cset, ok |-> r.ok]
    /\ n_calls' = n_calls + 1
    /\ UNCHANGED <<entry, circuit, pigeons, holes, all_variables, clauses, pc, i,
                   possible_constraints, started, ret, result>>

\* clauses = generate_pigeonhole(pigeons, holes)
GeneratePigeonhole ==
    /\ pc = "generate"
    /\ clauses' = generate_pigeonhole(pigeons, holes)
    /\ pc' = "start"
    /\ UNCHANGED <<cset, last_call, n_calls, entry, circuit, pigeons, holes, all_variables, i,
                   possible_constraints, started, ret, result>>

\* generate_and_solve: all_variables = collect_circuit_variables(circuit)
CollectVariables ==
    /\ pc = "collect"
    /\ all_variables' = collect_circuit_variables(circuit)
    /\ pc' = "convert"
    /\ UNCHANGED <<cset, last_call, n_calls, entry, circuit, pigeons, holes, clauses, i,
                   possible_constraints, started, ret, result>>

\* generate_and_solve: clauses = gate_to_cnf_clauses(circuit); an error
\* raised there leaves generate_and_solve
ConvertToCnf ==
    /\ pc = "convert"
    /\ LET r == gate_to_cnf_clauses(circuit) IN
       IF r.err = "none"
       THEN /\ clauses' = r.clauses
            /\ pc' = "start"
            /\ ret' = ret
       ELSE /\ clauses' = clauses
            /\ pc' = "done"
            /\ ret' = r.err
    /\ UNCHANGED <<cset, last_call, n_calls, entry, circuit, pigeons, holes, all_variables, i,
                   possible_constraints, started, result>>

\* satisfy_cnf up to the head of the for-loop
SatisfyStart ==
    /\ pc = "start"
    /\ started' = TRUE
    /\ IF clauses = <<>>
       THEN /\ ret' = EmptyFormulaResult.ret
            /\ result' = EmptyFormulaResult.result
            /\ pc' = "returned"
            /\ possible_constraints' = possible_constraints
       ELSE /\ possible_constraints' = <<ConstraintSet>>
            /\ pc' = "loop"
            /\ UNCHANGED <<ret, result>>
    /\ UNCHANGED <<cset, last_call, n_calls, entry, circuit, pigeons, holes, all_variables, clauses, i>>

\* one iteration of the for-loop of satisfy_cnf, its early return included
ProcessClause ==
    /\ pc = "loop"
    /\ i < Len(clauses)
    /\ LET new_constraints == Extend(clauses[i + 1], possible_constraints, 1) IN
       /\ possible_constraints' = new_constraints
       /\ i' = i + 1
       /\ IF FrontierExhausted(new_constraints)
          THEN ret' = "None" /\ pc' = "returned"
          ELSE ret' = ret /\ pc' = pc
    /\ UNCHANGED <<cset, last_call, n_calls, entry, circuit, pigeons, holes, all_variables, clauses,
                   started, result>>

\* satisfy_cnf: return possible_constraints[0].to_assignment()
Finish ==
    /\ pc = "loop"
    /\ i = Len(clauses)
    /\ IF possible_constraints = <<>>
       THEN ret' = "IndexError" /\ result' = result
       ELSE LET a == to_assignment(possible_constraints[1]) IN
            ret' = a.ret /\ result' = a.result
    /\ pc' = "returned"
    /\ UNCHANGED <<cset, last_call, n_calls, entry, circuit, pigeons, holes, all_variables, clauses, i,
                   possible_constraints, started>>

\* the merge of generate_and_solve: every circuit variable missing from result
\* is added as True
FillMissing(res, variables) ==
    [v \in (DOMAIN res) \cup variables |-> IF v \in DOMAIN res THEN res[v] ELSE TRUE]

\* generate_and_solve after satisfy_cnf has returned
FillResult ==
    /\ pc = "returned"
    /\ entry = "generate_and_solve"
    /\ result' = IF ret = "assignment" THEN FillMissing(result, all_variables)
                 ELSE result
    /\ pc' = "done"
    /\ UNCHANGED <<cset, last_call, n_calls, entry, circuit, pigeons, holes, all_variables, clauses, i,
                   possible_constraints, started, ret>>

Next ==
    \/ GeneratePigeonhole
    \/ CollectVariables
    \/ ConvertToCnf
    \/ SatisfyStart
    \/ ProcessClause
    \/ Finish
    \/ FillResult
    \/ SetState

Spec == Init /\ [][Next]_vars

---------------------------------------------------------------------------
(* Vocabulary of the properties *)

Range(seq) == {seq[k] : k \in 1..Len(seq)}

VarsOfClause(c) == Range(c[1]) \cup Range(c[2])

VarsOf(cl) == UNION {VarsOfClause(cl[k]) : k \in 1..Len(cl)}

EmptyClause == << <<>>, <<>> >>

\* the clause has a literal made true by the boolean mapping m
ClauseTrueUnder(c, m) ==
    \/ \E v \in Range(c[1]) : v \in DOMAIN m /\ m[v] = TRUE
    \/ \E v \in Range(c[2]) : v \in DOMAIN m /\ m[v] = FALSE

\* some total boolean assignment of the formula's variables satisfies it
Satisfiable(cl) ==
    \E a \in [VarsOf(cl) -> BOOLEAN] :
        \A k \in 1..Len(cl) : ClauseTrueUnder(cl[k], a)

\* the constraint set forces a literal of the clause true
ForcesLiteral(c, cs) ==
    \/ \E v \in Range(c[1]) : v \in DOMAIN cs /\ cs[v] = MUST_TRUE
    \/ \E v \in Range(c[2]) : v \in DOMAIN cs /\ cs[v] = MUST_FALSE

Returned == pc \in {"returned", "done"} /\ started

---------------------------------------------------------------------------
(* C1 *)

\* C1: whenever satisfy_cnf has returned a mapping, every clause of the input
\* formula has a literal made true by that mapping.
C1_Soundness ==
    ret = "assignment" =>
        \A k \in 1..Len(clauses) : ClauseTrueUnder(clauses[k], result)

C1_Witness ==
    /\ pc = "returned" /\ ret = "assignment"
    /\ Len(clauses) >= 2
    /\ \E v \in DOMAIN result : result[v] = FALSE
    /\ \E v \in DOMAIN result : result[v] = TRUE

---------------------------------------------------------------------------
(* C2 *)

\* C2: satisfy_cnf returns None only for a formula without satisfying
\* assignment; for a satisfiable formula the frontier is non-empty after every
\* clause and an assignment is returned.
C2_Completeness ==
    /\ ret = "None" => ~Satisfiable(clauses)
    /\ (started /\ clauses # <<>> /\ Satisfiable(clauses))
          => possible_constraints # <<>>
    /\ (Returned /\ Satisfiable(clauses)) => ret = "assignment"

C2_Witness ==
    /\ pc = "returned" /\ ret = "assignment"
    /\ Len(clauses) >= 2
    /\ Len(clauses[1][1]) = 2
    /\ clauses[2] = << <<>>, << clauses[1][1][1] >> >>

---------------------------------------------------------------------------
(* C3 *)

\* C3 as stated: the mapping returned by satisfy_cnf has every variable that
\* occurs in the formula as a key.
C3_Totality ==
    (pc = "returned" /\ ret = "assignment") => VarsOf(clauses) \subseteq DOMAIN result

\* C3 amended: the mapping returned by satisfy_cnf has as keys exactly the
\* variables that the first constraint set of the final frontier forces, each
\* mapped to a boolean; they are variables of the formula and include a
\* variable of every clause.  The remaining variables are added as True by
\* generate_and_solve, whose merged mapping is total.
C3_ForcedVariablesOnly ==
    /\ (pc = "returned" /\ ret = "assignment") =>
          /\ DOMAIN result \subseteq VarsOf(clauses)
          /\ \A v \in DOMAIN result : result[v] \in BOOLEAN
          /\ \A k \in 1..Len(clauses) : VarsOfClause(clauses[k]) \cap DOMAIN result # {}
          /\ clauses # <<>> =>
                DOMAIN result =
                   {v \in VarsOf(clauses) :
                       get_state(possible_constraints[1], v) \in {MUST_TRUE, MUST_FALSE}}
    /\ (pc = "done" /\ ret = "assignment") =>
          /\ VarsOf(clauses) \subseteq DOMAIN result
          /\ \A v \in DOMAIN result : result[v] \in BOOLEAN

C3_Witness ==
    /\ pc = "returned" /\ ret = "assignment"
    /\ ~(VarsOf(clauses) \subseteq DOMAIN result)
    /\ \E v \in DOMAIN result : result[v] = FALSE

---------------------------------------------------------------------------
(* C4 *)

PigeonVar(p, h) == (p - 1) * holes + h

\* C4: on generate_pigeonhole(n, h) with n, h positive, satisfy_cnf returns
\* None when n > h, and when n <= h an assignment that satisfies every clause
\* and puts every pigeon in a hole with no hole shared.
C4_Pigeonhole ==
    (entry = "pigeonhole" /\ pc = "returned") =>
        /\ pigeons > holes => ret = "None"
        /\ pigeons <= holes =>
              /\ ret = "assignment"
              /\ \A k \in 1..Len(clauses) : ClauseTrueUnder(clauses[k], result)
              /\ \A p \in 1..pigeons : \E h \in 1..holes :
                    PigeonVar(p, h) \in DOMAIN result /\ result[PigeonVar(p, h)]
              /\ \A h \in 1..holes : \A p1, p2 \in 1..pigeons :
                    (p1 < p2 /\ PigeonVar(p1, h) \in DOMAIN result
                             /\ PigeonVar(p2, h) \in DOMAIN result)
                    => ~(result[PigeonVar(p1, h)] /\ result[PigeonVar(p2, h)])

C4_Witness ==
    /\ entry = "pigeonhole" /\ pc = "returned"
    /\ pigeons > holes /\ holes >= 2
    /\ ret = "None"
    /\ i = Len(clauses)

---------------------------------------------------------------------------
(* C5 *)

\* C5: on a formula without clauses satisfy_cnf returns the empty assignment,
\* not None, and processes no clause (the frontier is never built).
C5_EmptyFormula ==
    (started /\ clauses = <<>>) =>
        /\ pc \in {"returned", "done"}
        /\ ret = "assignment"
        /\ DOMAIN result = {}
        /\ i = 0
        /\ possible_constraints = <<>>

C5_Witness ==
    entry = "satisfy_cnf" /\ clauses = <<>> /\ pc = "returned"

---------------------------------------------------------------------------
(* C6 *)

\* C6: propagate_clause returns no descendant for the clause without literals,
\* whatever the ancestor, and satisfy_cnf returns None for every formula that
\* contains such a clause, at any position.
C6_EmptyClauseFalse ==
    /\ \A j \in 1..Len(possible_constraints) :
          propagate_clause(EmptyClause, possible_constraints[j]) = <<>>
    /\ (Returned /\ \E k \in 1..Len(clauses) : clauses[k] = EmptyClause)
          => ret = "None"

C6_Witness ==
    /\ pc = "returned" /\ ret = "None"
    /\ Len(clauses) >= 2
    /\ i = Len(clauses)
    /\ clauses[i] = EmptyClause
    /\ \A k \in 1..(i - 1) : clauses[k] # EmptyClause

---------------------------------------------------------------------------
(* C7 *)

IsCnfLiteral(g) ==
    \/ g.gate_type = "INPUT"
    \/ /\ g.gate_type = "NOT"
       /\ g.inputs # <<>>
       /\ g.inputs[1].gate_type = "INPUT"

\* one of the three structural rules of a CNF tree is broken
Malformed(c) ==
    \/ c.gate_type # "AND"
    \/ \E k \in 1..Len(c.inputs) : c.inputs[k].gate_type # "OR"
    \/ \E k \in 1..Len(c.inputs) : \E l \in 1..Len(c.inputs[k].inputs) :
          ~IsCnfLiteral(c.inputs[k].inputs[l])

\* C7: gate_to_cnf_clauses ends in an error and yields no formula whenever the
\* top gate is not AND, a child of it is not OR, or a child of an OR is neither
\* INPUT nor NOT of an INPUT; in generate_and_solve that happens before
\* satisfy_cnf starts, which never runs on a rejected tree.
C7_MalformedRejected ==
    entry = "generate_and_solve" =>
        /\ Malformed(circuit) =>
              /\ gate_to_cnf_clauses(circuit).err \in {"ValueError", "IndexError"}
              /\ gate_to_cnf_clauses(circuit).clauses = <<>>
        /\ (Malformed(circuit) /\ pc \notin {"collect", "convert"}) =>
              /\ pc = "done"
              /\ ret \in {"ValueError", "IndexError"}
              /\ clauses = <<>>
              /\ ~started
        /\ started => ~Malformed(circuit)

C7_Witness ==
    /\ entry = "generate_and_solve"
    /\ pc = "done"
    /\ circuit.gate_type = "OR"
    /\ Len(circuit.inputs) = 1
    /\ ~Malformed(Gate("AND", circuit.inputs, 0))
    /\ ret = "ValueError"
    /\ ~started

---------------------------------------------------------------------------
(* C8 *)

Permutations(n) ==
    {f \in [1..n -> 1..n] : \A a, b \in 1..n : f[a] = f[b] => a = b}

Permuted(cl, f) == [k \in 1..Len(cl) |-> cl[f[k]]]

\* C8: satisfy_cnf returns None on a formula exactly if it returns None on
\* every permutation of the formula's clauses.
C8_OrderIndependent ==
    (entry \in {"satisfy_cnf", "generate_and_solve"} /\ pc = "returned") =>
        \A f \in Permutations(Len(clauses)) :
            (ret = "None") <=> (satisfy_cnf(Permuted(clauses, f)).ret = "None")

C8_Witness ==
    /\ entry = "satisfy_cnf" /\ pc = "returned" /\ ret = "None"
    /\ Len(clauses) >= 3
    /\ \A a, b \in 1..Len(clauses) : a # b => clauses[a] # clauses[b]
    /\ \A k \in 1..Len(clauses) : clauses[k] # EmptyClause

---------------------------------------------------------------------------
(* C9 *)

\* C9: when the ancestor already forces a literal of the clause true,
\* propagate_clause returns exactly one descendant, with the ancestor's
\* variable states, so the ancestor contributes one entry to the next frontier
\* (a frontier of such ancestors is carried over unchanged).
C9_ShortCircuit ==
    (pc = "loop" /\ i < Len(clauses)) =>
        LET c == clauses[i + 1] IN
        /\ \A j \in 1..Len(possible_constraints) :
              ForcesLiteral(c, possible_constraints[j]) =>
                 propagate_clause(c, possible_constraints[j])
                    = <<possible_constraints[j]>>
        /\ (\A j \in 1..Len(possible_constraints) :
               ForcesLiteral(c, possible_constraints[j]))
             => Extend(c, possible_constraints, 1) = possible_constraints

C9_Witness ==
    /\ pc = "loop" /\ i < Len(clauses)
    /\ Len(clauses[i + 1][1]) + Len(clauses[i + 1][2]) >= 2
    /\ Len(possible_constraints) >= 2
    /\ \E j \in 1..Len(possible_constraints) :
          ForcesLiteral(clauses[i + 1], possible_constraints[j])
    /\ \E j \in 1..Len(possible_constraints) :
          ~ForcesLiteral(clauses[i + 1], possible_constraints[j])

---------------------------------------------------------------------------
(* C10 *)

\* the frontier was built and a clause has emptied it
FrontierEmptied == started /\ clauses # <<>> /\ possible_constraints = <<>>

\* C10: once a clause has emptied the frontier, satisfy_cnf has stopped at that
\* clause with None as its returned value (no error raised), no later clause
\* is processed and the frontier stays empty.
C10_MonotonicEmptying ==
    /\ [](FrontierEmptied =>
            /\ pc \in {"returned", "done"}
            /\ ret = "None"
            /\ i >= 1 /\ i <= Len(clauses))
    /\ [][FrontierEmptied =>
            /\ possible_constraints' = <<>>
            /\ i' = i
            /\ ret' = "None"]_vars

C10_Witness ==
    /\ FrontierEmptied
    /\ pc = "returned" /\ ret = "None"
    /\ i >= 2 /\ i < Len(clauses)

---------------------------------------------------------------------------
(* C11 *)

\* C11: in every state of satisfy_cnf, from the single empty constraint set on
\* and after any number of clauses, no constraint set of the frontier has a
\* variable in state CONFLICT.
C11_NoConflictRetained ==
    \A j \in 1..Len(possible_constraints) :
        \A v \in DOMAIN possible_constraints[j] :
            possible_constraints[j][v] # CONFLICT

C11_Witness ==
    /\ pc = "loop" /\ i >= 2
    /\ Len(possible_constraints) >= 2
    /\ \E j \in 1..Len(possible_constraints) :
          \E v, w \in DOMAIN possible_constraints[j] :
              /\ possible_constraints[j][v] = MUST_TRUE
              /\ possible_constraints[j][w] = MUST_FALSE
    /\ \E k \in 1..i : \E v \in Range(clauses[k][1]) : \E l \in 1..i :
          v \in Range(clauses[l][2])

---------------------------------------------------------------------------
(* C12 *)

\* the dict agrees with the one before the latest call outside that call's
\* variable
OthersUnchanged ==
    /\ DOMAIN cset \ {last_call.var} = DOMAIN last_call.before \ {last_call.var}
    /\ \A w \in DOMAIN cset \ {last_call.var} : cset[w] = last_call.before[w]

\* C12: set_state stores the requested state and returns success if the
\* variable's state was UNKNOWN (or the variable absent) or already the
\* requested state; otherwise it stores CONFLICT and returns failure; other
\* variables are left unchanged; a variable in CONFLICT stays in CONFLICT
\* under every later call.
C12_SetStateRule ==
    /\ [](n_calls > 0 =>
            LET current == IF last_call.var \in DOMAIN last_call.before
                           THEN last_call.before[last_call.var]
                           ELSE UNKNOWN
            IN /\ last_call.var \in DOMAIN cset
               /\ (current = UNKNOWN \/ current = last_call.state)
                     => (last_call.ok /\ cset[last_call.var] = last_call.state)
               /\ ~(current = UNKNOWN \/ current = last_call.state)
                     => (~last_call.ok /\ cset[last_call.var] = CONFLICT)
               /\ OthersUnchanged)
    /\ [][\A v \in DOMAIN cset :
             cset[v] = CONFLICT => (v \in DOMAIN cset' /\ cset'[v] = CONFLICT)]_vars

C12_Witness ==
    /\ n_calls >= 3
    /\ ~last_call.ok
    /\ last_call.before[last_call.var] = CONFLICT
    /\ cset[last_call.var] = CONFLICT
    /\ \E w \in DOMAIN cset : w # last_call.var /\ cset[w] = MUST_FALSE

---------------------------------------------------------------------------
(* C13 *)

\* the literals <<variable, polarity>> of a clause as its pair of lists gives
\* them: the positive list, then the negative list
LiteralsOfClause(c) ==
    [k \in 1..Len(c[1]) |-> <<c[1][k], TRUE>>]
    \o [k \in 1..Len(c[2]) |-> <<c[2][k], FALSE>>]

\* the literals of a well-formed OR gate in the order of its children
LiteralsOfGate(g) ==
    [k \in 1..Len(g.inputs) |->
        IF g.inputs[k].gate_type = "INPUT"
        THEN <<g.inputs[k].index, TRUE>>
        ELSE <<g.inputs[k].inputs[1].index, FALSE>>]

RECURSIVE InListedOrder(_, _, _)
\* one candidate per literal that the ancestor does not exclude (variable
\* unconstrained so far), in the order of the listing
InListedOrder(lits, k, cs) ==
    IF k > Len(lits) THEN <<>>
    ELSE LET v == lits[k][1]
             want == IF lits[k][2] THEN MUST_TRUE ELSE MUST_FALSE
             now == IF v \in DOMAIN cs THEN cs[v] ELSE UNKNOWN
         IN (IF now \in {UNKNOWN, want}
             THEN << [w \in DOMAIN cs \cup {v} |-> IF w = v THEN want ELSE cs[w]] >>
             ELSE <<>>)
            \o InListedOrder(lits, k + 1, cs)

IsInputGate(g) == g.gate_type = "INPUT"
IsNotGate(g) == g.gate_type = "NOT"

\* the clause being processed next came from this OR gate
BranchingOnGate == entry = "generate_and_solve" /\ pc = "loop" /\ i < Len(clauses)

\* C13 as stated: when branching, the kept candidates come in the order in
\* which the literals are listed in the clause, which for a clause extracted
\* from a gate tree is the order of the OR gate's children.
C13_ListedOrder ==
    (pc = "loop" /\ i < Len(clauses)) =>
        LET c == clauses[i + 1]
            listing == IF entry = "generate_and_solve"
                       THEN LiteralsOfGate(circuit.inputs[i + 1])
                       ELSE LiteralsOfClause(c)
        IN \A j \in 1..Len(possible_constraints) :
              ~ForcesLiteral(c, possible_constraints[j]) =>
                 propagate_clause(c, possible_constraints[j])
                    = InListedOrder(listing, 1, possible_constraints[j])

\* C13 amended: when branching, the kept candidates of the positive literals
\* come first, in the order of the positive list, then those of the negative
\* literals in the order of the negative list; gate_to_cnf_clauses keeps the
\* order of the OR gate's children within each polarity only (un-negated
\* children in their order, negated children in theirs).
C13_PolarityGroupedOrder ==
    /\ (pc = "loop" /\ i < Len(clauses)) =>
          LET c == clauses[i + 1] IN
          \A j \in 1..Len(possible_constraints) :
              ~ForcesLiteral(c, possible_constraints[j]) =>
                 propagate_clause(c, possible_constraints[j])
                    = InListedOrder(LiteralsOfClause(c), 1, possible_constraints[j])
    /\ (entry = "generate_and_solve" /\ started) =>
          \A k \in 1..Len(clauses) :
              LET pos == SelectSeq(circuit.inputs[k].inputs, IsInputGate)
                  neg == SelectSeq(circuit.inputs[k].inputs, IsNotGate)
              IN /\ clauses[k][1] = [l \in 1..Len(pos) |-> pos[l].index]
                 /\ clauses[k][2] = [l \in 1..Len(neg) |-> neg[l].inputs[1].index]

C13_Witness ==
    /\ BranchingOnGate
    /\ Len(circuit.inputs[i + 1].inputs) >= 2
    /\ circuit.inputs[i + 1].inputs[1].gate_type = "NOT"
    /\ circuit.inputs[i + 1].inputs[2].gate_type = "INPUT"
    /\ \E j \in 1..Len(possible_constraints) :
          Len(propagate_clause(clauses[i + 1], possible_constraints[j])) >= 2

---------------------------------------------------------------------------
(* C14 *)

StateIn(cs, v) == IF v \in DOMAIN cs THEN cs[v] ELSE UNKNOWN

\* the ancestor with the one variable v forced to `want`
PlusForced(cs, v, want) ==
    [w \in DOMAIN cs \cup {v} |-> IF w = v THEN want ELSE cs[w]]

\* the positions of the list whose literal propagate_clause does not skip
NotSkipped(lits, cs, excluded) ==
    {k \in 1..Len(lits) : StateIn(cs, lits[k]) # excluded}

\* C14: for every constraint set of the frontier and every clause of the
\* formula on which propagate_clause branches, each set_state call it makes
\* (one per literal not forced the opposite way) returns success and yields
\* the ancestor plus that one variable forced; the descendants are exactly
\* these, one per such literal.
C14_NoConflictBranch ==
    pc = "loop" =>
        \A k \in 1..Len(clauses) : \A j \in 1..Len(possible_constraints) :
            LET c == clauses[k]
                cs == possible_constraints[j]
                out == propagate_clause(c, cs)
            IN ~ForcesLiteral(c, cs) =>
                  /\ \A l \in NotSkipped(c[1], cs, MUST_FALSE) :
                        LET r == set_state(copy(cs), c[1][l], MUST_TRUE) IN
                        r.ok /\ r.cs = PlusForced(cs, c[1][l], MUST_TRUE)
                  /\ \A l \in NotSkipped(c[2], cs, MUST_TRUE) :
                        LET r == set_state(copy(cs), c[2][l], MUST_FALSE) IN
                        r.ok /\ r.cs = PlusForced(cs, c[2][l], MUST_FALSE)
                  /\ Len(out) = Cardinality(NotSkipped(c[1], cs, MUST_FALSE))
                                + Cardinality(NotSkipped(c[2], cs, MUST_TRUE))
                  /\ \A n \in 1..Len(out) :
                        \/ \E l \in NotSkipped(c[1], cs, MUST_FALSE) :
                              out[n] = PlusForced(cs, c[1][l], MUST_TRUE)
                        \/ \E l \in NotSkipped(c[2], cs, MUST_TRUE) :
                              out[n] = PlusForced(cs, c[2][l], MUST_FALSE)

C14_Witness ==
    /\ pc = "loop" /\ i >= 1 /\ i < Len(clauses)
    /\ \E j \in 1..Len(possible_constraints) :
          LET c == clauses[i + 1]
              cs == possible_constraints[j]
          IN /\ ~ForcesLiteral(c, cs)
             /\ NotSkipped(c[1], cs, MUST_FALSE) # {}
             /\ NotSkipped(c[1], cs, MUST_FALSE) # 1..Len(c[1])
             /\ DOMAIN cs # {}

====
